---- MODULE Spec2Model ----
(***************************************************************************)
(* IRSendReceive (ESP8266 IR controller, version 2.0.0): the history       *)
(* buffers for sent and received IR codes, the transmit engine (irblast,   *)
(* rawblast), the reception step of the main loop and the HTTP handlers    *)
(* that drive them.                                                        *)
(*                                                                         *)
(* Arduino Strings are modelled as sequences of one-character strings, so  *)
(* that toLowerCase, the hex parser and the number renderings work on      *)
(* characters as the code does.                                            *)
(***************************************************************************)
EXTENDS Integers, Sequences, FiniteSets, TLC

\* ------------------------------------------------------------------ bounds
\* Handler calls and reception events of one run of the whole system (Spec).
MaxOps == 2
\* Inserts beyond the capacity of a history buffer in the history runs (SpecHist).
MaxExtra == 1
\* Readouts of the sensor in the sensor runs (SpecDHT).
MaxReads == 3

\* --------------------------------------------------------- program constants
MAX_CODES == 6
RAWTICK == 2
\* The time between status messages and the age of the last sensor message
\* that forces the next one, in ms.
STATUScycle == 600000
ForceSendAfter == 600000

\* ------------------------------------------------------------------ strings
Digits ==
  <<"0", "1", "2", "3", "4", "5", "6", "7", "8", "9">>
UpperAlpha ==
  <<"A", "B", "C", "D", "E", "F", "G", "H", "I", "J", "K", "L", "M",
    "N", "O", "P", "Q", "R", "S", "T", "U", "V", "W", "X", "Y", "Z">>
LowerAlpha ==
  <<"a", "b", "c", "d", "e", "f", "g", "h", "i", "j", "k", "l", "m",
    "n", "o", "p", "q", "r", "s", "t", "u", "v", "w", "x", "y", "z">>

IsIn(seq, c) == \E i \in 1..Len(seq) : seq[i] = c
IndexOf(seq, c) == CHOOSE i \in 1..Len(seq) : seq[i] = c

\* The ASCII code of a character (the characters the inputs are made of).
Ord(c) ==
  IF IsIn(Digits, c) THEN 47 + IndexOf(Digits, c)
  ELSE IF IsIn(UpperAlpha, c) THEN 64 + IndexOf(UpperAlpha, c)
  ELSE IF IsIn(LowerAlpha, c) THEN 96 + IndexOf(LowerAlpha, c)
  ELSE IF c = "-" THEN 45
  ELSE IF c = "," THEN 44
  ELSE IF c = ":" THEN 58
  ELSE 63

toLowerChar(c) ==
  IF IsIn(UpperAlpha, c) THEN LowerAlpha[IndexOf(UpperAlpha, c)] ELSE c
toUpperChar(c) ==
  IF IsIn(LowerAlpha, c) THEN UpperAlpha[IndexOf(LowerAlpha, c)] ELSE c

\* String::toLowerCase and String::toUpperCase, character by character.
toLowerCase(s) == [i \in 1..Len(s) |-> toLowerChar(s[i])]
toUpperCase(s) == [i \in 1..Len(s) |-> toUpperChar(s[i])]

\* String(n) of an integer: its decimal rendering, "-" first when negative.
RECURSIVE DecDigits(_)
DecDigits(n) ==
  IF n < 10 THEN <<Digits[n + 1]>>
  ELSE Append(DecDigits(n \div 10), Digits[(n % 10) + 1])
DecStr(n) == IF n < 0 THEN <<"-">> \o DecDigits(0 - n) ELSE DecDigits(n)

\* NTPClient::getFormattedTime of a time of day in seconds: "HH:MM:SS".
TwoDigits(n) == <<Digits[(n \div 10) + 1], Digits[(n % 10) + 1]>>
getFormattedTime(secs) ==
  TwoDigits((secs % 86400) \div 3600) \o <<":">>
    \o TwoDigits((secs % 3600) \div 60) \o <<":">> \o TwoDigits(secs % 60)

\* ------------------------------------------------------- hex parse / render
\* An unsigned integer of the program is a sequence of 16-bit limbs, lowest
\* first: two limbs for an unsigned long, four for a uint64_t.
Limb == 2 ^ 16
Zero(n) == [i \in 1..n |-> 0]
\* The limbs of a number below 2^31.
Limbs(n, v) == [i \in 1..n |-> IF i = 1 THEN v % Limb
                               ELSE IF i = 2 THEN v \div Limb ELSE 0]
ULong(v) == Limbs(2, v)
UInt64(v) == Limbs(4, v)

\* x + v * 65536^(j-1), cut to the width of x.
RECURSIVE AddAt(_, _, _)
AddAt(x, j, v) ==
  IF v = 0 \/ j > Len(x) THEN x
  ELSE AddAt([x EXCEPT ![j] = (x[j] + v) % Limb], j + 1, (x[j] + v) \div Limb)

\* x + (c << s) for a shift s below the width of x.
AddShifted(x, c, s) == AddAt(x, (s \div 16) + 1, c * (2 ^ (s % 16)))

\* HexToLongInt: taken from the right, every character is turned into a value
\* by unsigned char arithmetic (c - '0', then - 7 when above 9) and added,
\* shifted by 4 bits per position, into a 32-bit unsigned long. A shift by
\* 32 bits or more is undefined: `wide` names what the build makes of it,
\* the bits shifted out ("out") or the shift count taken modulo 32 ("mod").
HexCharValue(c) ==
  LET u == toUpperChar(c)
      d == (Ord(u) - 48) % 256
  IN IF d > 9 THEN (d - 7) % 256 ELSE d
WideShifts == {"out", "mod"}
RECURSIVE HexAccumulate(_, _, _, _, _)
HexAccumulate(h, i, s, tmp, wide) ==
  IF i < 1 THEN tmp
  ELSE HexAccumulate(h, i - 1, s + 4,
                     IF s < 32 THEN AddShifted(tmp, HexCharValue(h[i]), s)
                     ELSE IF wide = "mod"
                       THEN AddShifted(tmp, HexCharValue(h[i]), s % 32)
                       ELSE tmp,
                     wide)
HexToLongInt(h, wide) == HexAccumulate(h, Len(h), 0, ULong(0), wide)

\* Uint64toString(input, 16): the lowest hex digit first, then input / 16,
\* until nothing is left; upper-case, "0" for zero.
HexDigitChar(d) == IF d < 10 THEN Digits[d + 1] ELSE UpperAlpha[d - 9]
ShiftRight4(x) ==
  [i \in 1..Len(x) |->
     (x[i] \div 16) + (IF i < Len(x) THEN (x[i + 1] % 16) * 4096 ELSE 0)]
RECURSIVE Uint64toString16(_)
Uint64toString16(input) ==
  IF ShiftRight4(input) = Zero(Len(input))
  THEN <<HexDigitChar(input[1] % 16)>>
  ELSE Append(Uint64toString16(ShiftRight4(input)), HexDigitChar(input[1] % 16))

\* String(n, HEX) of a small number: lower-case hexadecimal.
StringHEX(n) == toLowerCase(Uint64toString16(UInt64(n)))

\* -------------------------------------------------------------- IR codes
\* typedef struct IRcode: eight Strings, all empty when constructed.
EmptyCode ==
  [type |-> <<>>, data |-> <<>>, bits |-> <<>>, rawbuf |-> <<>>,
   rawlen |-> <<>>, address |-> <<>>, command |-> <<>>, rec_time |-> <<>>]

Slots == 0..(MAX_CODES - 1)
\* A pointer to a slot of one of the two storage arrays.
PtrTo(arr, i) == [arr |-> arr, idx |-> i]

UNKNOWN == <<"U", "N", "K", "N", "O", "W", "N">>
\* encoding(): the label of a decoder protocol id; ids without a case of
\* their own take the default case.
encoding(decode_type) ==
  CASE decode_type = "UNKNOWN" -> UNKNOWN
    [] decode_type = "NEC" -> <<"N", "E", "C">>
    [] decode_type = "SONY" -> <<"S", "O", "N", "Y">>
    [] decode_type = "RC5" -> <<"R", "C", "5">>
    [] decode_type = "RC6" -> <<"R", "C", "6">>
    [] decode_type = "DISH" -> <<"D", "I", "S", "H">>
    [] decode_type = "SHARP" -> <<"S", "H", "A", "R", "P">>
    [] decode_type = "JVC" -> <<"J", "V", "C">>
    [] decode_type = "SANYO" -> <<"S", "A", "N", "Y", "O">>
    [] decode_type = "SANYO_LC7461" ->
         <<"S", "A", "N", "Y", "O", "_", "L", "C", "7", "4", "6", "1">>
    [] decode_type = "MITSUBISHI" ->
         <<"M", "I", "T", "S", "U", "B", "I", "S", "H", "I">>
    [] decode_type = "SAMSUNG" -> <<"S", "A", "M", "S", "U", "N", "G">>
    [] decode_type = "LG" -> <<"L", "G">>
    [] decode_type = "WHYNTER" -> <<"W", "H", "Y", "N", "T", "E", "R">>
    [] decode_type = "AIWA_RC_T501" ->
         <<"A", "I", "W", "A", "_", "R", "C", "_", "T", "5", "0", "1">>
    [] decode_type = "PANASONIC" ->
         <<"P", "A", "N", "A", "S", "O", "N", "I", "C">>
    [] decode_type = "DENON" -> <<"D", "E", "N", "O", "N">>
    [] decode_type = "COOLIX" -> <<"C", "O", "O", "L", "I", "X">>
    [] OTHER -> UNKNOWN

\* The raw timing buffer as text: entries 1..rawlen-1 (entry 0 is skipped),
\* each times RAWTICK, joined by commas. rawbuf[k + 1] models rawbuf[k].
RECURSIVE RawText(_, _)
RawText(rawbuf, i) ==
  IF i >= Len(rawbuf) THEN <<>>
  ELSE DecStr(rawbuf[i + 1] * RAWTICK)
         \o (IF i < Len(rawbuf) - 1 THEN <<",">> ELSE <<>>)
         \o RawText(rawbuf, i + 1)

\* The conversion that keeps the raw samples of unknown protocols only.
codeIRcode_rawifunknown(results) ==
  [type |-> encoding(results.decode_type),
   data |-> Uint64toString16(results.value),
   bits |-> DecStr(results.bits),
   rawlen |-> DecStr(Len(results.rawbuf) - 1),
   rawbuf |-> IF results.decode_type = "UNKNOWN"
              THEN RawText(results.rawbuf, 1) ELSE <<>>,
   address |-> IF results.decode_type # "UNKNOWN"
               THEN <<"0", "x">> \o StringHEX(results.address)
               ELSE <<"0", "x">>,
   command |-> IF results.decode_type # "UNKNOWN"
               THEN <<"0", "x">> \o StringHEX(results.command)
               ELSE <<"0", "x">>,
   rec_time |-> <<>>]

\* codeIRcode: a decode result as an IRcode; rec_time is left to the caller.
codeIRcode(results) ==
  [type |-> encoding(results.decode_type),
   data |-> Uint64toString16(results.value),
   bits |-> DecStr(results.bits),
   rawlen |-> DecStr(Len(results.rawbuf) - 1),
   rawbuf |-> RawText(results.rawbuf, 1),
   address |-> IF results.decode_type # "UNKNOWN"
               THEN <<"0", "x">> \o StringHEX(results.address)
               ELSE <<"0", "x">>,
   command |-> IF results.decode_type # "UNKNOWN"
               THEN <<"0", "x">> \o StringHEX(results.command)
               ELSE <<"0", "x">>,
   rec_time |-> <<>>]

\* copyIRcode: all eight fields of `from`.
copyIRcode(from) ==
  [type |-> from.type, data |-> from.data, bits |-> from.bits,
   address |-> from.address, command |-> from.command,
   rawlen |-> from.rawlen, rec_time |-> from.rec_time, rawbuf |-> from.rawbuf]

\* The shift without the saved last pointer: position 0 keeps its slot.
RotateCodes_unsaved(last) ==
  [i \in Slots |-> IF i = 0 THEN last[0] ELSE last[i - 1]]

\* The shift with the loop running upwards from position 1: every position
\* behind 0 ends up with the pointer that was first.
RotateCodes_ascending(last) ==
  [i \in Slots |-> IF i = 0 THEN last[MAX_CODES - 1] ELSE last[0]]

\* The shift of a pointer array: the last pointer becomes the first, the
\* others move one position towards the end.
RotateCodes(last) ==
  [i \in Slots |-> IF i = 0 THEN last[MAX_CODES - 1] ELSE last[i - 1]]


\* ------------------------------------------------------------------- state
VARIABLES
  Received,           \* IRcode Received[MAX_CODES]
  LastReceived,       \* IRcode *LastReceived[MAX_CODES]
  Sent,               \* IRcode Sent[MAX_CODES]
  LastSent,           \* IRcode *LastSent[MAX_CODES]
  holdReceive,        \* flag to prevent IR receiving while transmitting
  FhemMsg,            \* send received IR commands to fhem
  config,             \* FhemIP, FhemPort, FhemFmt, FhemVarIR, FhemVarTH, DHTcycle
  sensor,             \* millis(), the sensor cache and the timers of loop()
  CountIRreceived,
  CountIRsent,
  CountIRtransferred,
  now,                \* the time of day of the NTP client, in seconds
  pc,                 \* where the single thread of control is
  ret,                \* the handler a transmit returns to
  call,               \* the arguments and locals of the running transmit
  queue,              \* handle_json: the elements still to process
  httpcode,           \* the status of the response of the running handler
  page,               \* the code a /received response shows
  txLog,              \* what the running handler did on the transmitter
  sentLog,            \* every record meant for the sent history, newest first
  recvLog,            \* every record meant for the received history, newest first
  evLog,              \* every decode the loop consumed, oldest first
  fhemCalls,          \* calls of IRtoFhem
  resumes,            \* calls of irrecv.resume()
  cap                 \* the budget of the run: transmits plus receptions

vars ==
  <<Received, LastReceived, Sent, LastSent, holdReceive, FhemMsg, config,
    sensor,
    CountIRreceived, CountIRsent, CountIRtransferred, now, pc, ret, call,
    queue, httpcode, page, txLog, sentLog, recvLog, evLog, fhemCalls,
    resumes, cap>>

history == <<Received, LastReceived, Sent, LastSent>>
counters == <<CountIRreceived, CountIRsent, CountIRtransferred>>
ghosts == <<sentLog, recvLog, evLog, fhemCalls, resumes>>

\* The configuration the program starts with (lines 128-134).
DefaultConfig ==
  [FhemIP |-> "192.168.2.12", FhemPort |-> "8083", FhemFmt |-> "fhem",
   FhemVarIR |-> "d_IR", FhemVarTH |-> "d_Temp2", DHTcycle |-> 60000]

\* A reading of the sensor: not a number, or a value in tenths.
Reading(nan, tenths) == [nan |-> nan, tenths |-> tenths]
NoRead ==
  [error |-> FALSE, since |-> 0, sent |-> FALSE, sTemp |-> <<>>, sHum |-> <<>>,
   temp |-> Reading(TRUE, 0), hum |-> Reading(TRUE, 0),
   cachedTemp |-> 0, cachedHum |-> 0]

\* millis() after setup, lastTemp, lastHum and lastSent (lines 112-114), the
\* static timers of loop() (1129-1130), and what the readouts did: their
\* number, the last one, the messages of DHTtoFhem and of STATUStoFhem.
SensorAtBoot ==
  [millis |-> 1000, lastTemp |-> 0, lastHum |-> 0, lastSent |-> 0,
   DHTlastReadout |-> 0, STATUSlastSent |-> 0,
   reads |-> 0, read |-> NoRead, dhtCalls |-> 0, statusCalls |-> 0]

\* The time of day at boot.
BootTime == 12 * 3600

NoCall ==
  [fn |-> "none", type |-> <<>>, dataStr |-> <<>>, data |-> ULong(0),
   len |-> 0,
   rdelay |-> 0, pulse |-> 0, pdelay |-> 0, repeat |-> 0, address |-> 0,
   raw |-> <<>>, khz |-> 0, asked |-> <<>>, id |-> 0, args |-> <<>>]

\* setup(): every slot unused, the pointer arrays in storage order.
SetupState(budget) ==
  /\ Received = [i \in Slots |-> EmptyCode]
  /\ LastReceived = [i \in Slots |-> PtrTo("Received", i)]
  /\ Sent = [i \in Slots |-> EmptyCode]
  /\ LastSent = [i \in Slots |-> PtrTo("Sent", i)]
  /\ holdReceive = FALSE
  /\ FhemMsg = 1
  /\ config = DefaultConfig
  /\ sensor = SensorAtBoot
  /\ CountIRreceived = 0
  /\ CountIRsent = 0
  /\ CountIRtransferred = 0
  /\ now = BootTime
  /\ pc = "idle"
  /\ ret = "none"
  /\ call = NoCall
  /\ queue = <<>>
  /\ httpcode = 0
  /\ page = EmptyCode
  /\ txLog = <<>>
  /\ sentLog = <<>>
  /\ recvLog = <<>>
  /\ evLog = <<>>
  /\ fhemCalls = 0
  /\ resumes = 0
  /\ cap = budget

\* The write that goes to the first slot of the array, not through the pointer.
SentAfterWrite_first(ptr, code) ==
  IF ptr.arr = "Sent" THEN [Sent EXCEPT ![0] = code] ELSE Sent

\* The slot a pointer points to, and the storage arrays after a write through it.
Deref(ptr) == IF ptr.arr = "Sent" THEN Sent[ptr.idx] ELSE Received[ptr.idx]
SentAfterWrite(ptr, code) ==
  IF ptr.arr = "Sent" THEN [Sent EXCEPT ![ptr.idx] = code] ELSE Sent
\* A write that lands in Received whichever array the pointer is of.
ReceivedAfterWrite_any(ptr, code) == [Received EXCEPT ![ptr.idx] = code]

ReceivedAfterWrite(ptr, code) ==
  IF ptr.arr = "Received" THEN [Received EXCEPT ![ptr.idx] = code] ELSE Received

\* Transmits and receptions so far, against the budget of the run.
Used == CountIRsent + CountIRreceived
HasBudget(n) == Used + n <= cap

\* An argument of an HTTP request, or its default when it is absent.
Arg(args, name, default) == IF name \in DOMAIN args THEN args[name] ELSE default


\* --------------------------------------------------------- transmit engine
TxOp(op, args) == [op |-> op, args |-> args]

\* irblast's chain of comparisons of the lower-cased type: what one pulse
\* does on the transmitter (nothing when no comparison matches).
SendCode(type, data, len, address) ==
  IF type = <<"n", "e", "c">> THEN <<TxOp("sendNEC", [data |-> data, nbits |-> len])>>
  ELSE IF type = <<"s", "o", "n", "y">> THEN <<TxOp("sendSony", [data |-> data, nbits |-> len])>>
  ELSE IF type = <<"c", "o", "o", "l", "i", "x">>
    THEN <<TxOp("sendCOOLIX", [data |-> data, nbits |-> len])>>
  ELSE IF type = <<"w", "h", "y", "n", "t", "e", "r">>
    THEN <<TxOp("sendWhynter", [data |-> data, nbits |-> len])>>
  ELSE IF type = <<"p", "a", "n", "a", "s", "o", "n", "i", "c">>
    THEN <<TxOp("sendPanasonic", [address |-> address, data |-> data])>>
  ELSE IF type = <<"j", "v", "c">> THEN <<TxOp("sendJVC", [data |-> data, nbits |-> len, repeat |-> 0])>>
  ELSE IF type = <<"s", "a", "m", "s", "u", "n", "g">>
    THEN <<TxOp("sendSAMSUNG", [data |-> data, nbits |-> len])>>
  ELSE IF type = <<"s", "h", "a", "r", "p", "R", "a", "w">>
    THEN <<TxOp("sendSharpRaw", [data |-> data, nbits |-> len])>>
  ELSE IF type = <<"d", "i", "s", "h">> THEN <<TxOp("sendDISH", [data |-> data, nbits |-> len])>>
  ELSE IF type = <<"r", "c", "5">> THEN <<TxOp("sendRC5", [data |-> data, nbits |-> len])>>
  ELSE IF type = <<"r", "c", "6">> THEN <<TxOp("sendRC6", [data |-> data, nbits |-> len])>>
  ELSE IF type = <<"d", "e", "n", "o", "n">>
    THEN <<TxOp("sendDenon", [data |-> data, nbits |-> len])>>
  ELSE IF type = <<"l", "g">> THEN <<TxOp("sendLG", [data |-> data, nbits |-> len])>>
  ELSE IF type = <<"s", "h", "a", "r", "p">>
    THEN <<TxOp("sendSharpRaw", [data |-> data, nbits |-> len])>>
  ELSE IF type = <<"r", "c", "m", "m">> THEN <<TxOp("sendRCMM", [data |-> data, nbits |-> len])>>
  ELSE <<>>

\* The replay that passes every space on as it is, negative or not.
RECURSIVE SendRaw_unclamped(_, _)
SendRaw_unclamped(raw, i) ==
  IF i >= Len(raw) THEN <<>>
  ELSE <<IF i % 2 = 1
         THEN TxOp("space", [usec |-> raw[i + 1]])
         ELSE TxOp("mark", [usec |-> raw[i + 1]])>>
       \o SendRaw_unclamped(raw, i + 1)

\* rawblast's innermost loop: element i of the list as a mark (i even) or as
\* a space of max(0, value) (i odd); raw[i + 1] models raw[i].
RECURSIVE SendRaw(_, _)
SendRaw(raw, i) ==
  IF i >= Len(raw) THEN <<>>
  ELSE <<IF i % 2 = 1
         THEN TxOp("space", [usec |-> IF raw[i + 1] > 0 THEN raw[i + 1] ELSE 0])
         ELSE TxOp("mark", [usec |-> raw[i + 1]])>>
       \o SendRaw(raw, i + 1)

\* The pulse body that sends the list twice.
PulseBody_twice(c) ==
  IF c.fn = "rawblast"
  THEN <<TxOp("enableIROut", [khz |-> c.khz])>> \o SendRaw(c.raw, 0)
         \o SendRaw(c.raw, 0) \o <<TxOp("space", [usec |-> 0])>>
  ELSE SendCode(c.type, c.data, c.len, c.address)

\* One pass of the pulse loop body, before the delay.
PulseBody(c) ==
  IF c.fn = "rawblast"
  THEN <<TxOp("enableIROut", [khz |-> c.khz])>> \o SendRaw(c.raw, 0)
         \o <<TxOp("space", [usec |-> 0])>>
  ELSE SendCode(c.type, c.data, c.len, c.address)

\* The delay after every pulse but the last of the repeat.
PulseDelay_count(c, p) ==
  IF p + 1 < c.pulse THEN <<TxOp("delay", [ms |-> c.pdelay])>> ELSE <<>>

\* The delay after pulse p and the delay after repeat r.
PulseDelay(c, p) ==
  IF p + 1 < c.pdelay THEN <<TxOp("delay", [ms |-> c.pdelay])>> ELSE <<>>
RepeatDelay(c, r) ==
  IF r + 1 < c.rdelay THEN <<TxOp("delay", [ms |-> c.rdelay])>> ELSE <<>>

\* The pulse loop with one pass too many.
RECURSIVE PulseLoop_inclusive(_, _)
PulseLoop_inclusive(c, p) ==
  IF p <= c.pulse
  THEN PulseBody(c) \o PulseDelay(c, p) \o PulseLoop_inclusive(c, p + 1)
  ELSE <<>>

\* The pulse loop from p and the repeat loop from r.
RECURSIVE PulseLoop(_, _)
PulseLoop(c, p) ==
  IF p < c.pulse
  THEN PulseBody(c) \o PulseDelay(c, p) \o PulseLoop(c, p + 1)
  ELSE <<>>
RECURSIVE RepeatLoop(_, _)
RepeatLoop(c, r) ==
  IF r < c.repeat
  THEN PulseLoop(c, 0) \o RepeatDelay(c, r) \o RepeatLoop(c, r + 1)
  ELSE <<>>

\* The record with the type as it was asked for, not lower-cased.
irblastCode_asked(c, old, time) ==
  [old EXCEPT !.data = c.dataStr,
              !.bits = DecStr(c.len),
              !.type = c.asked,
              !.address = DecStr(c.address),
              !.command = <<"0">>,
              !.rawlen = <<"0">>,
              !.rec_time = time]

\* The record irblast writes into the slot `old` it reuses: rawbuf is not
\* assigned and keeps what the slot held.
irblastCode(c, old, time) ==
  [old EXCEPT !.data = c.dataStr,
              !.bits = DecStr(c.len),
              !.type = c.type,
              !.address = DecStr(c.address),
              !.command = <<"0">>,
              !.rawlen = <<"0">>,
              !.rec_time = time]

\* The raw record that leaves the payload of the reused slot in place.
rawblastCode_stale(c, old, time) ==
  [old EXCEPT !.type = <<"R", "A", "W">>,
              !.bits = DecStr(Len(c.raw)),
              !.address = <<"0">>,
              !.command = <<"0">>,
              !.rawlen = <<"0">>,
              !.rec_time = time,
              !.rawbuf = <<>>]

\* The record rawblast writes into the slot `old` it reuses.
rawblastCode(c, old, time) ==
  [old EXCEPT !.data = <<>>,
              !.type = <<"R", "A", "W">>,
              !.bits = DecStr(Len(c.raw)),
              !.address = <<"0">>,
              !.command = <<"0">>,
              !.rawlen = <<"0">>,
              !.rec_time = time,
              !.rawbuf = <<>>]

\* The records the two transmit modes are meant to leave in the sent history.
NamedRecord(c, time) ==
  [type |-> c.type, data |-> c.dataStr, bits |-> DecStr(c.len),
   rawbuf |-> <<>>, rawlen |-> <<"0">>, address |-> DecStr(c.address),
   command |-> <<"0">>, rec_time |-> time]
RawRecord(c, time) ==
  [type |-> <<"R", "A", "W">>, data |-> <<>>, bits |-> DecStr(Len(c.raw)),
   rawbuf |-> <<>>, rawlen |-> <<"0">>, address |-> <<"0">>,
   command |-> <<"0">>, rec_time |-> time]

\* resetReceive() that resumes the receiver and leaves the flag set.
resetReceiveHold_kept(hold) == hold

\* resetReceive(): the flag after the call, and the resume calls it makes.
resetReceiveHold(hold) == IF hold THEN FALSE ELSE hold
resetReceiveResumes(hold) == IF hold THEN 1 ELSE 0

\* A transmit that does not block incoming IR signals.
BlockReceive_kept(hold) == hold

\* The flag once a transmit has blocked incoming IR signals.
BlockReceive(hold) == TRUE

\* irblast, from its entry to the blocking of reception (lines 784-788).
irblastEnter(type, dataStr, len, rdelay, pulse, pdelay, repeat, address) ==
  /\ \E wide \in WideShifts :
       call' = [NoCall EXCEPT
                  !.fn = "irblast", !.asked = type,
                  !.type = toLowerCase(type), !.dataStr = dataStr,
                  !.data = HexToLongInt(dataStr, wide), !.len = len,
                  !.rdelay = rdelay, !.pulse = pulse, !.pdelay = pdelay,
                  !.repeat = repeat, !.address = address]
  /\ holdReceive' = BlockReceive(holdReceive)
  /\ pc' = "irblast"

\* rawblast, from its entry to the blocking of reception (lines 844-846).
rawblastEnter(raw, khz, rdelay, pulse, pdelay, repeat) ==
  /\ call' = [NoCall EXCEPT
                !.fn = "rawblast", !.raw = raw, !.khz = khz,
                !.rdelay = rdelay, !.pulse = pulse, !.pdelay = pdelay,
                !.repeat = repeat]
  /\ holdReceive' = BlockReceive(holdReceive)
  /\ pc' = "rawblast"

\* A counter of the frames sent: one for every pulse of every repeat.
SentCounted_pulses(count, c) == count + c.repeat * c.pulse

\* CountIRsent++ of irblast and of rawblast, after their loops.
SentCounted(count, c) == count + 1

\* The rest of irblast and of rawblast: the repeat and pulse loops, the
\* counter, the shift of LastSent, the record and resetReceive.
Blast(fn) ==
  /\ call.fn = fn
  /\ LET time == getFormattedTime(now)
         shifted == RotateCodes(LastSent)
         head == shifted[0]
         code == IF fn = "rawblast"
                 THEN rawblastCode(call, Deref(head), time)
                 ELSE irblastCode(call, Deref(head), time)
         meant == IF fn = "rawblast"
                  THEN RawRecord(call, time)
                  ELSE NamedRecord(call, time)
     IN /\ txLog' = txLog \o RepeatLoop(call, 0)
        /\ CountIRsent' = SentCounted(CountIRsent, call)
        /\ LastSent' = shifted
        /\ Sent' = SentAfterWrite(head, code)
        /\ Received' = ReceivedAfterWrite(head, code)
        /\ sentLog' = <<meant>> \o sentLog
        /\ holdReceive' = resetReceiveHold(holdReceive)
        /\ resumes' = resumes + resetReceiveResumes(holdReceive)
  /\ now' = now + 1
  /\ pc' = "return"
  /\ UNCHANGED <<LastReceived, FhemMsg, config, sensor, CountIRreceived, CountIRtransferred,
                 ret, call, queue, httpcode, page, recvLog, evLog, fhemCalls,
                 cap>>

irblast ==
  /\ pc = "irblast"
  /\ Blast("irblast")
rawblast ==
  /\ pc = "rawblast"
  /\ Blast("rawblast")


\* ------------------------------------------------------------ HTTP handlers
\* handle_msg up to the point where irblast has blocked reception: every
\* argument is taken as given, or its default when it is absent.
handle_msg(args) ==
  /\ pc = "idle"
  /\ HasBudget(1)
  /\ httpcode' = IF Arg(args, "simple", 0) # 0 THEN 200 ELSE 0
  /\ irblastEnter(Arg(args, "type", <<>>), Arg(args, "data", <<>>),
                  Arg(args, "length", 0), Arg(args, "rdelay", 1000),
                  Arg(args, "pulse", 1), Arg(args, "pdelay", 100),
                  Arg(args, "repeat", 1), Arg(args, "address", 0))
  /\ ret' = "handle_msg"
  /\ txLog' = <<>>
  /\ UNCHANGED <<history, FhemMsg, config, sensor, counters, now, queue, page, ghosts, cap>>

\* handle_msg after irblast has returned: the home page, unless the short
\* answer was sent before the transmit.
handle_msg_return ==
  /\ pc = "return"
  /\ ret = "handle_msg"
  /\ httpcode' = 200
  /\ pc' = "responded"
  /\ UNCHANGED <<history, holdReceive, FhemMsg, config, sensor, counters, now, ret, call,
                 queue, page, txLog, ghosts, cap>>

\* The elements of a parsed array that transmit (all but the delays).
Transmits(root) ==
  Cardinality({i \in 1..Len(root) :
                 Arg(root[i], "type", <<>>) # <<"d", "e", "l", "a", "y">>})

\* A handler that takes whatever parseArray returns for a parsed array.
ParseFailed_never(body) == FALSE

\* !root.success(): the body did not parse as a JSON array.
ParseFailed(body) == ~body.success

\* handle_json up to its loop over the parsed array; a body that does not
\* parse as an array is answered with 400.
handle_json(body, simple) ==
  /\ pc = "idle"
  /\ HasBudget(Transmits(body.root))
  /\ txLog' = <<>>
  /\ ret' = "handle_json"
  /\ call' = [NoCall EXCEPT !.fn = "handle_json",
                            !.args = [plain |-> body, simple |-> simple]]
  /\ IF ParseFailed(body)
     THEN /\ httpcode' = 400
          /\ pc' = "responded"
          /\ queue' = <<>>
     ELSE /\ httpcode' = IF simple # 0 THEN 200 ELSE 0
          /\ pc' = "json"
          /\ queue' = body.root
  /\ UNCHANGED <<history, holdReceive, FhemMsg, config, sensor, counters, now, page,
                 ghosts, cap>>

\* A count or delay of a JSON element: 0 when absent, its default when <= 0.
JsonInt(elem, name) == Arg(elem, name, 0)
\* handle_json without lines 320-323: a count or delay is taken as parsed.
JsonDefaulted_asis(elem, name, default) == JsonInt(elem, name)

JsonDefaulted(elem, name, default) ==
  IF JsonInt(elem, name) <= 0 THEN default ELSE JsonInt(elem, name)

\* One pass of handle_json's loop, up to the call of delay, rawblast or
\* irblast for the element.
handle_json_element ==
  /\ pc \in {"json", "return"}
  /\ ret = "handle_json"
  /\ queue # <<>>
  /\ LET elem == Head(queue)
         type == Arg(elem, "type", <<>>)
         rdelay == JsonDefaulted(elem, "rdelay", 1000)
         pulse == JsonDefaulted(elem, "pulse", 1)
         pdelay == JsonDefaulted(elem, "pdelay", 100)
         repeat == JsonDefaulted(elem, "repeat", 1)
     IN IF type = <<"d", "e", "l", "a", "y">>
        THEN /\ txLog' = Append(txLog, TxOp("delay", [ms |-> rdelay]))
             /\ pc' = "json"
             /\ UNCHANGED <<call, holdReceive>>
        ELSE /\ txLog' = txLog
             /\ IF type = <<"r", "a", "w">>
                THEN rawblastEnter(Arg(elem, "data", <<>>),
                                   JsonDefaulted(elem, "khz", 38),
                                   rdelay, pulse, pdelay, repeat)
                ELSE irblastEnter(type, Arg(elem, "data", <<>>),
                                  JsonInt(elem, "length"), rdelay, pulse,
                                  pdelay, repeat, JsonInt(elem, "address"))
  /\ queue' = Tail(queue)
  /\ UNCHANGED <<history, FhemMsg, config, sensor, counters, now, ret, httpcode, page,
                 ghosts, cap>>

\* handle_json after the last element: the home page.
handle_json_return ==
  /\ pc \in {"json", "return"}
  /\ ret = "handle_json"
  /\ queue = <<>>
  /\ httpcode' = 200
  /\ pc' = "responded"
  /\ UNCHANGED <<history, holdReceive, FhemMsg, config, sensor, counters, now, ret, call,
                 queue, page, txLog, ghosts, cap>>

\* The configuration after handle_setup: every value is replaced when the
\* request has the argument the handler asks for.
setupConfig(args, old) ==
  [FhemIP |-> Arg(args, "FhemIp", old.FhemIP),
   FhemPort |-> Arg(args, "FhemPort", old.FhemPort),
   FhemFmt |-> Arg(args, "FhemFmt", old.FhemFmt),
   FhemVarIR |-> Arg(args, "FhemVarIR", old.FhemVarIR),
   FhemVarTH |-> Arg(args, "FhemVarTH", old.FhemVarTH),
   DHTcycle |-> Arg(args, "DHTcycle", old.DHTcycle)]

\* handle_setup: FhemMsg is replaced when the request carries it.
handle_setup(args) ==
  /\ pc = "idle"
  /\ FhemMsg' = Arg(args, "FhemMsg", FhemMsg)
  /\ config' = setupConfig(args, config)
  /\ call' = [NoCall EXCEPT !.fn = "handle_setup", !.args = args]
  /\ httpcode' = 200
  /\ pc' = "responded"
  /\ ret' = "handle_setup"
  /\ UNCHANGED <<history, holdReceive, sensor, counters, now, queue, page,
                 txLog, ghosts, cap>>

\* What a read of LastReceived[i] yields: the slot, or anything at all when
\* i is outside the array.
ReadReceived(i, anything) ==
  IF i \in Slots THEN Deref(LastReceived[i]) ELSE anything

\* The test without the look at the slot's time, and the test that lets
\* id 0 through.
handleReceivedFound_anyslot(id, anything) == id > 0 /\ id <= MAX_CODES
handleReceivedFound_fromzero(id, anything) ==
  id >= 0 /\ id <= MAX_CODES /\ ReadReceived(id - 1, anything).rec_time # <<>>

\* handleReceived's test: the id names a used slot.
handleReceivedFound(id, anything) ==
  id > 0 /\ id <= MAX_CODES /\ ReadReceived(id - 1, anything).rec_time # <<>>

\* A slot's worth of memory that is no slot.
Garbage ==
  {EmptyCode, [EmptyCode EXCEPT !.rec_time = <<"?">>]}

\* handleReceived: the code page of the id-th newest code, or 404.
handleReceived(id) ==
  /\ pc = "idle"
  /\ \E anything \in Garbage :
       IF handleReceivedFound(id, anything)
       THEN /\ httpcode' = 200
            /\ page' = ReadReceived(id - 1, anything)
       ELSE /\ httpcode' = 404
            /\ page' = EmptyCode
  /\ call' = [NoCall EXCEPT !.fn = "handleReceived", !.id = id]
  /\ pc' = "responded"
  /\ ret' = "handleReceived"
  /\ UNCHANGED <<history, holdReceive, FhemMsg, config, sensor, counters, now, queue, txLog,
                 ghosts, cap>>

\* sendHomePage's two tables: the slots with a time, in logical order.
RECURSIVE ListCodes(_, _)
ListCodes(last, i) ==
  IF i >= MAX_CODES THEN <<>>
  ELSE (IF Deref(last[i]).rec_time # <<>> THEN <<Deref(last[i])>> ELSE <<>>)
         \o ListCodes(last, i + 1)
listSent == ListCodes(LastSent, 0)
listReceived == ListCodes(LastReceived, 0)

\* The handler has answered and returns to the main loop.
handler_done ==
  /\ pc = "responded"
  /\ pc' = "idle"
  /\ ret' = "none"
  /\ call' = NoCall
  /\ queue' = <<>>
  /\ httpcode' = 0
  /\ page' = EmptyCode
  /\ txLog' = <<>>
  /\ UNCHANGED <<history, holdReceive, FhemMsg, config, sensor, counters, now, ghosts, cap>>

\* ---------------------------------------------------------------- main loop
\* The test of loop(): a decode is there and reception is not held.
LoopAccepts(decoded, hold) == decoded /\ ~hold

\* The loop of version 1.2.1, which looks at no repeat flag.
IsRepeat_never(results) == FALSE

\* Whether the receiver flags the decode as a protocol repeat.
IsRepeat(results) == results.repeat

\* Forwarding only for FhemMsg = 1.
LoopForwards_one(fhemMsg, code) == fhemMsg = 1 /\ code.type # UNKNOWN

\* Forwarding of whatever was received when messaging is on.
LoopForwards_any(fhemMsg, code) == fhemMsg # 0

\* Whether the loop forwards a stored code to fhem.
LoopForwards(fhemMsg, code) == fhemMsg # 0 /\ code.type # UNKNOWN

\* The record of a decode that is meant for the received history.
ReceivedRecord(results, time) ==
  [codeIRcode(results) EXCEPT !.rec_time = time]

\* The fields of the request that IRtoFhem makes for a code: those of a
\* decoded code, or for type UNKNOWN those of a raw capture.
FhemField(name, value) == [name |-> name, value |-> value]
IRtoFhemFields(last_code) ==
  IF last_code.type # UNKNOWN
  THEN <<FhemField("type", last_code.type),
         FhemField("length", last_code.bits),
         FhemField("address", last_code.address),
         FhemField("command", last_code.command),
         FhemField("data", last_code.data)>>
  ELSE <<FhemField("type", <<"R", "A", "W">>),
         FhemField("data", last_code.data),
         FhemField("rawlen", last_code.rawlen),
         FhemField("rawbuf", last_code.rawbuf)>>

\* http.GET() of SendHttpCmd: in the network of the model fhem answers at
\* the address of the defaults, and no connection is made to any other.
HttpGet(host) == IF host = DefaultConfig.FhemIP THEN 200 ELSE 0 - 1

\* IRtoFhem: the request for the code, in the format FhemFmt selects, and
\* what SendHttpCmd gets for it.
IRtoFhem(last_code, cfg) ==
  [fn |-> "IRtoFhem", host |-> cfg.FhemIP, port |-> cfg.FhemPort,
   var |-> cfg.FhemVarIR,
   format |-> IF cfg.FhemFmt # "fhem" THEN "json" ELSE "fhem",
   fields |-> IRtoFhemFields(last_code),
   httpCode |-> HttpGet(cfg.FhemIP)]

\* A loop that resumes the receiver when it is done with the code.
LoopCalls_resumelast(results, fhemMsg, last_code, cfg) ==
  (IF ~IsRepeat(results) /\ LoopForwards(fhemMsg, last_code)
   THEN <<IRtoFhem(last_code, cfg)>>
   ELSE <<>>) \o <<[fn |-> "irrecv.resume"]>>

\* The calls that one pass of loop() makes for a decode, in their order:
\* irrecv.resume() (line 1147), then IRtoFhem when the code is forwarded.
LoopCalls(results, fhemMsg, last_code, cfg) ==
  <<[fn |-> "irrecv.resume"]>>
    \o (IF ~IsRepeat(results) /\ LoopForwards(fhemMsg, last_code)
        THEN <<IRtoFhem(last_code, cfg)>>
        ELSE <<>>)

\* The reception step of loop() for the decode `results` of the receiver.
loop(results) ==
  /\ pc = "idle"
  /\ HasBudget(1)
  /\ LoopAccepts(TRUE, holdReceive)
  /\ CountIRreceived' = CountIRreceived + 1
  /\ resumes' = resumes + 1
  /\ evLog' =
       Append(evLog,
              [results |-> results, FhemMsg |-> FhemMsg,
               calls |-> LoopCalls(results, FhemMsg,
                                   ReceivedRecord(results,
                                                  getFormattedTime(now)),
                                   config)])
  /\ LET last_code == [codeIRcode(results) EXCEPT
                         !.rec_time = getFormattedTime(now)]
         shifted == RotateCodes(LastReceived)
         head == shifted[0]
     IN IF IsRepeat(results)
        THEN UNCHANGED <<history, CountIRtransferred, fhemCalls, recvLog>>
        ELSE /\ LastReceived' = shifted
             /\ Received' = ReceivedAfterWrite(head, copyIRcode(last_code))
             /\ Sent' = SentAfterWrite(head, copyIRcode(last_code))
             /\ LastSent' = LastSent
             /\ recvLog' =
                  <<ReceivedRecord(results, getFormattedTime(now))>> \o recvLog
             /\ IF LoopForwards(FhemMsg, last_code)
                THEN /\ CountIRtransferred' = CountIRtransferred + 1
                     /\ fhemCalls' = fhemCalls + 1
                ELSE UNCHANGED <<CountIRtransferred, fhemCalls>>
  /\ now' = now + 1
  /\ UNCHANGED <<holdReceive, FhemMsg, config, sensor, CountIRsent, pc, ret, call, queue,
                 httpcode, page, txLog, sentLog, cap>>


\* ------------------------------------------------------------------ sensor
\* dtostrf(value, 5, 2, s) of a value >= 0 given in tenths: two decimals,
\* padded with blanks on the left to 5 characters.
dtostrf52(tenths) ==
  LET text == DecStr(tenths \div 10) \o <<".">>
                \o <<Digits[(tenths % 10) + 1], "0">>
  IN IF Len(text) < 5 THEN [i \in 1..(5 - Len(text)) |-> " "] \o text ELSE text

\* The value DHTtoFhem works with: the reading, or 0.0 when it is no number.
DHTvalue(r) == IF r.nan THEN 0 ELSE r.tenths
DHTtext(r) == IF r.nan THEN <<"-">> ELSE dtostrf52(r.tenths)
Abs(x) == IF x < 0 THEN 0 - x ELSE x

\* Whether DHTtoFhem sends: a failed reading, a last message older than
\* ForceSendAfter, or a change of more than 0.5 / 0.2.
DHTsends(error, since, lastHum, lastTemp, hum, temp) ==
  \/ error
  \/ since > ForceSendAfter
  \/ Abs(lastHum - hum) > 5
  \/ Abs(lastTemp - temp) > 2

\* The cache that is updated whatever the readings were.
DHTcached_always(error, old, new) == new

\* The cached value after a message: updated unless a reading failed.
DHTcached(error, old, new) == IF ~error THEN new ELSE old

\* DHTtoFhem at the time Now for the readings temp and hum.
DHTtoFhem(s, Now, temp, hum) ==
  LET error == temp.nan \/ hum.nan
      since == Now - s.lastSent
      sends == DHTsends(error, since, s.lastHum, s.lastTemp,
                        DHTvalue(hum), DHTvalue(temp))
  IN [s EXCEPT
        !.lastHum = IF sends THEN DHTcached(error, @, DHTvalue(hum)) ELSE @,
        !.lastTemp = IF sends THEN DHTcached(error, @, DHTvalue(temp)) ELSE @,
        !.lastSent = IF sends THEN Now ELSE @,
        !.dhtCalls = IF sends THEN @ + 1 ELSE @,
        !.reads = @ + 1,
        !.read = [error |-> error, since |-> since, sent |-> sends,
                  sTemp |-> DHTtext(temp), sHum |-> DHTtext(hum),
                  temp |-> temp, hum |-> hum,
                  cachedTemp |-> s.lastTemp, cachedHum |-> s.lastHum]]

\* The timers at the end of loop(): the sensor is read out and the status is
\* sent when their cycle is over or when they never ran.
loopTimers(s, Now, temp, hum) ==
  LET dhtDue == Now - s.DHTlastReadout > config.DHTcycle
                  \/ s.DHTlastReadout = 0
      statusDue == Now - s.STATUSlastSent > STATUScycle
                     \/ s.STATUSlastSent = 0
      afterDHT == IF dhtDue
                  THEN [DHTtoFhem(s, Now, temp, hum) EXCEPT
                          !.DHTlastReadout = Now]
                  ELSE s
  IN [afterDHT EXCEPT
        !.millis = Now,
        !.statusCalls = IF statusDue THEN @ + 1 ELSE @,
        !.STATUSlastSent = IF statusDue THEN Now ELSE @]

\* A pass of loop() without a decode, `elapsed` ms after the last one, in
\* which the sensor would yield the readings temp and hum.
loopSensor(temp, hum, elapsed) ==
  /\ pc = "idle"
  /\ sensor.reads < MaxReads
  /\ sensor' = loopTimers(sensor, sensor.millis + elapsed, temp, hum)
  /\ UNCHANGED <<history, holdReceive, FhemMsg, config, counters, now, pc,
                 ret, call, queue, httpcode, page, txLog, ghosts, cap>>

\* ------------------------------------------------------------------ inputs
\* Decodes of the receiver: a NEC code, its protocol repeat, a code of no
\* known protocol, and a code of a protocol that encoding() has no case for.
Decode(decode_type, value, bits, address, command, rawbuf, repeat) ==
  [decode_type |-> decode_type, value |-> value, bits |-> bits,
   address |-> address, command |-> command, rawbuf |-> rawbuf,
   overflow |-> FALSE, repeat |-> repeat]
NecDecode == Decode("NEC", UInt64(31), 8, 1, 15, <<0, 4, 2>>, FALSE)
NecRepeat == Decode("NEC", UInt64(31), 8, 1, 15, <<0, 4, 2>>, TRUE)
UnknownDecode == Decode("UNKNOWN", UInt64(10), 4, 0, 0, <<0, 280, 845, 280>>, FALSE)
UnlistedDecode == Decode("RCMM", UInt64(5), 12, 2, 3, <<0, 7>>, FALSE)
Decodes == {NecDecode, NecRepeat, UnknownDecode, UnlistedDecode}

\* /msg requests: a named code with the defaults, an unsupported name sent
\* twice, a code with no pulse at all.
MsgNec ==
  [type |-> <<"N", "E", "C">>, data |-> <<"1", "F">>, length |-> 8]
MsgBogus ==
  [type |-> <<"B", "o", "g", "u", "s">>, data |-> <<"a">>, length |-> 4,
   repeat |-> 2, rdelay |-> 2]
MsgNoPulse ==
  [type |-> <<"s", "o", "n", "y">>, data |-> <<"2">>, length |-> 12,
   pulse |-> 0, repeat |-> 0 - 1, address |-> 7, simple |-> 1]
MsgRequests == {MsgNec, MsgBogus, MsgNoPulse}

\* /json bodies: one that does not parse, a raw list, an empty raw list,
\* a delay followed by a named code.
JsonBody(success, root) == [success |-> success, root |-> root]
JsonRaw ==
  [type |-> <<"r", "a", "w">>, data |-> <<9, 0 - 4, 5, 6>>]
JsonRawEmpty ==
  [type |-> <<"r", "a", "w">>, data |-> <<>>, khz |-> 36, pulse |-> 2,
   pdelay |-> 1]
JsonDelay == [type |-> <<"d", "e", "l", "a", "y">>, rdelay |-> 5]
JsonNec ==
  [type |-> <<"n", "e", "c">>, data |-> <<"2", "0">>, length |-> 32]
JsonBodies ==
  {JsonBody(FALSE, <<>>), JsonBody(TRUE, <<JsonRaw>>),
   JsonBody(TRUE, <<JsonRawEmpty>>), JsonBody(TRUE, <<JsonDelay, JsonNec>>)}

\* /setup requests: without FhemMsg, and with FhemMsg 0, 1 and 2.
SetupRequests ==
  {[FhemIp |-> "h"]} \cup {[FhemMsg |-> m] : m \in 0..2}

\* /received requests.
ReceivedIds == {0 - 1, 0, 1, 2, MAX_CODES, MAX_CODES + 1}

\* ----------------------------------------------------------- specifications
\* The whole system.
Init == SetupState(MaxOps)

Next ==
  \/ \E args \in MsgRequests : handle_msg(args)
  \/ \E body \in JsonBodies : handle_json(body, 0)
  \/ \E args \in SetupRequests : handle_setup(args)
  \/ \E id \in ReceivedIds : handleReceived(id)
  \/ \E results \in Decodes : loop(results)
  \/ irblast
  \/ rawblast
  \/ handle_msg_return
  \/ handle_json_element
  \/ handle_json_return
  \/ handler_done

Spec == Init /\ [][Next]_vars


\* The history buffers in depth: one named code, one raw list and one decode,
\* until a buffer has taken MaxExtra records more than it holds.
HistDecodes == {NecDecode, UnknownDecode}
HistMsgRequests == {MsgNec}
HistJsonBodies == {JsonBody(TRUE, <<JsonRaw>>)}
HistIds == {0, 1, MAX_CODES, MAX_CODES + 1}

InitHist == SetupState(MAX_CODES + MaxExtra)

NextHist ==
  \/ \E args \in HistMsgRequests : handle_msg(args)
  \/ \E body \in HistJsonBodies : handle_json(body, 1)
  \/ \E id \in HistIds : handleReceived(id)
  \/ \E results \in HistDecodes : loop(results)
  \/ irblast
  \/ rawblast
  \/ handle_msg_return
  \/ handle_json_element
  \/ handle_json_return
  \/ handler_done

SpecHist == InitHist /\ [][NextHist]_vars


\* The whole system under the scheduling of the single thread: a handler or
\* a transmit that has started continues until it has returned to the loop.
FairSpec ==
  /\ Spec
  /\ WF_vars(irblast)
  /\ WF_vars(rawblast)
  /\ WF_vars(handle_msg_return)
  /\ WF_vars(handle_json_element)
  /\ WF_vars(handle_json_return)
  /\ WF_vars(handler_done)

\* The names the transmit engine is meant to support, and every way of
\* writing a name in upper and lower case.
SupportedNames ==
  {<<"n", "e", "c">>, <<"s", "o", "n", "y">>,
   <<"c", "o", "o", "l", "i", "x">>, <<"w", "h", "y", "n", "t", "e", "r">>,
   <<"p", "a", "n", "a", "s", "o", "n", "i", "c">>, <<"j", "v", "c">>,
   <<"s", "a", "m", "s", "u", "n", "g">>,
   <<"s", "h", "a", "r", "p", "r", "a", "w">>, <<"d", "i", "s", "h">>,
   <<"r", "c", "5">>, <<"r", "c", "6">>, <<"d", "e", "n", "o", "n">>,
   <<"l", "g">>, <<"s", "h", "a", "r", "p">>, <<"r", "c", "m", "m">>}
RECURSIVE CaseVariants(_)
CaseVariants(name) ==
  IF name = <<>> THEN {<<>>}
  ELSE {<<c>> \o rest :
          c \in {toLowerChar(Head(name)), toUpperChar(Head(name))},
          rest \in CaseVariants(Tail(name))}
AllSpellings == UNION {CaseVariants(name) : name \in SupportedNames}

\* One /msg request for a supported name in any spelling.
InitNames == SetupState(1)

NextNames ==
  \/ /\ pc = "idle"
     /\ \E type \in AllSpellings :
          handle_msg([type |-> type, data |-> <<"1", "F">>, length |-> 8])
  \/ irblast
  \/ handle_msg_return
  \/ handler_done

SpecNames == InitNames /\ [][NextNames]_vars

\* One /msg request out of a wide range of arguments.
BlastTypes ==
  SupportedNames
    \cup {<<"N", "e", "C">>, <<"b", "o", "g", "u", "s">>, <<>>}
BlastData ==
  {<<>>, <<"1", "F">>, <<"f", "f">>,
   <<"2", "0", "D", "F", "1", "0", "E", "F">>,
   <<"1", "0", "0", "0", "0", "0", "0", "0", "1">>}
BlastRequests ==
  {[type |-> type, data |-> data, length |-> len, address |-> 16388,
    pulse |-> pulse, repeat |-> repeat, pdelay |-> pdelay, rdelay |-> rdelay] :
     type \in BlastTypes, data \in BlastData, len \in {12, 32},
     pulse \in 0..3, repeat \in {0 - 1, 1, 2}, pdelay \in {0, 2, 100},
     rdelay \in {1, 2, 1000}}

InitBlast == SetupState(1)

NextBlast ==
  \/ /\ pc = "idle"
     /\ \E args \in BlastRequests : handle_msg(args)
  \/ irblast
  \/ handle_msg_return
  \/ handler_done

SpecBlast == InitBlast /\ [][NextBlast]_vars

\* One /json request of one raw element: lists with and without negative
\* values, counts and delays below, at and above their defaults.
RawLists == {<<>>, <<9>>, <<9, 0 - 4, 5, 6>>, <<0 - 3, 0 - 7, 2>>}
RawRequests ==
  {[type |-> <<"r", "a", "w">>, data |-> list, khz |-> khz, pulse |-> pulse,
    repeat |-> repeat, pdelay |-> pdelay, rdelay |-> 1] :
     list \in RawLists, khz \in {0, 36}, pulse \in 0..3, repeat \in 1..2,
     pdelay \in {1, 3}}

InitRaw == SetupState(1)

NextRaw ==
  \/ /\ pc = "idle"
     /\ \E elem \in RawRequests : handle_json(JsonBody(TRUE, <<elem>>), 1)
  \/ rawblast
  \/ handle_json_element
  \/ handle_json_return
  \/ handler_done

SpecRaw == InitRaw /\ [][NextRaw]_vars


\* A received code sent again: one decode of a value of up to 64 bits, then
\* one /msg request with the type, data and length of the stored record.
RoundValues ==
  {<<a, b, c, 0>> : a \in {0, 1, 10, 43981}, b \in {0, 8415, 65535},
                    c \in {0, 1}}
    \cup {<<65535, 65535, 65535, 65535>>}
RoundDecodes ==
  {Decode("NEC", value, 32, 1, 15, <<0, 4, 2>>, FALSE) : value \in RoundValues}

InitRound == SetupState(2)

NextRound ==
  \/ /\ recvLog = <<>>
     /\ \E results \in RoundDecodes : loop(results)
  \/ /\ recvLog # <<>>
     /\ handle_msg([type |-> Deref(LastReceived[0]).type,
                    data |-> Deref(LastReceived[0]).data, length |-> 32])
  \/ irblast
  \/ handle_msg_return
  \/ handler_done

SpecRound == InitRound /\ [][NextRound]_vars


\* /setup requests for every documented parameter, for the argument name the
\* handler asks for, and for two parameters at once, around one reception.
ConfigRequests ==
  {[FhemIP |-> "10.0.0.5"], [FhemIp |-> "10.0.0.6"], [FhemPort |-> "8084"],
   [FhemMsg |-> 0], [FhemFmt |-> "0"], [FhemVarIR |-> "d_IR2"],
   [FhemVarTH |-> "d_Temp1"], [DHTcycle |-> 5000],
   [FhemPort |-> "8085", FhemVarIR |-> "d_IR3"]}

InitSetup == SetupState(1)

NextSetup ==
  \/ \E args \in ConfigRequests : handle_setup(args)
  \/ loop(NecDecode)
  \/ handler_done

SpecSetup == InitSetup /\ [][NextSetup]_vars


\* The sensor over time: readings that fail, stay or change, a cycle or more
\* than ten minutes apart.
Temperatures == {Reading(TRUE, 0), Reading(FALSE, 215), Reading(FALSE, 230)}
Humidities == {Reading(TRUE, 0), Reading(FALSE, 400)}
Elapses == {20000, 60001, 600001}

InitDHT == SetupState(0)

NextDHT ==
  \E temp \in Temperatures, hum \in Humidities, elapsed \in Elapses :
    loopSensor(temp, hum, elapsed)

SpecDHT == InitDHT /\ [][NextDHT]_vars


\* Decodes of captures of every length from 0 entries on, of a known and of
\* an unknown protocol.
CaptureBuffers == {<<>>, <<0>>, <<0, 4>>, <<0, 4, 2>>, <<0, 280, 845, 280>>}
CaptureDecodes ==
  {Decode(type, UInt64(10), 4, 1, 15, rawbuf, FALSE) :
     type \in {"NEC", "UNKNOWN"}, rawbuf \in CaptureBuffers}

InitCapture == SetupState(2)

NextCapture == \E results \in CaptureDecodes : loop(results)

SpecCapture == InitCapture /\ [][NextCapture]_vars


\* /json requests of several elements, between receptions: named codes, raw
\* lists and delays in either order, an empty array, a delay alone, and a
\* body that is no JSON array.
JsonPause == [type |-> <<"d", "e", "l", "a", "y">>]
JsonSony ==
  [type |-> <<"s", "o", "n", "y">>, data |-> <<"a", "9", "0">>,
   length |-> 12, repeat |-> 2, rdelay |-> 3]
ArrayBodies ==
  {JsonBody(FALSE, <<>>), JsonBody(TRUE, <<>>), JsonBody(TRUE, <<JsonDelay>>),
   JsonBody(TRUE, <<JsonNec, JsonDelay, JsonRaw>>),
   JsonBody(TRUE, <<JsonPause, JsonRawEmpty, JsonSony>>)}
ArrayDecodes == {NecDecode, UnknownDecode}

InitJson == SetupState(MaxOps + 2)

NextJson ==
  \/ \E body \in ArrayBodies, simple \in {0, 1} : handle_json(body, simple)
  \/ \E results \in ArrayDecodes : loop(results)
  \/ irblast
  \/ rawblast
  \/ handle_json_element
  \/ handle_json_return
  \/ handler_done

SpecJson == InitJson /\ [][NextJson]_vars


\* Receptions of every kind under each way of forwarding: the flat and the
\* structured format, fhem at the default address and at one that does not
\* answer, messaging off and on.
ForwardRequests ==
  {[FhemFmt |-> "json"], [FhemIp |-> "10.0.0.6"], [FhemMsg |-> 0],
   [FhemMsg |-> 2]}

InitForward == SetupState(MaxOps + 1)

NextForward ==
  \/ \E args \in ForwardRequests : handle_setup(args)
  \/ \E results \in Decodes : loop(results)
  \/ handler_done

SpecForward == InitForward /\ [][NextForward]_vars


\* ------------------------------------------------------------------ claims
\* What a buffer shows against the log of the records inserted into it.
HoldsLog(last, log) ==
  /\ \A i \in Slots :
       IF i < Len(log)
       THEN Deref(last[i]) = log[i + 1]
       ELSE Deref(last[i]).rec_time = <<>>
  /\ \A k \in (MAX_CODES + 1)..Len(log) :
       \A i \in Slots : Deref(last[i]) # log[k]

\* C1: after k inserts into a history buffer of MAX_CODES slots, the slots
\* 0..min(k, MAX_CODES)-1 hold the last min(k, MAX_CODES) records field for
\* field, the newest at 0, every other slot is unused, and an insert into a
\* full buffer drops the oldest record and no other; for both buffers.
C1_Rotation ==
  /\ HoldsLog(LastSent, sentLog)
  /\ HoldsLog(LastReceived, recvLog)

C1_Witness ==
  /\ Len(sentLog) > MAX_CODES
  /\ Deref(LastSent[0]) = sentLog[1]
  /\ Deref(LastSent[MAX_CODES - 1]) = sentLog[MAX_CODES]
  /\ \E i, j \in Slots :
       /\ Deref(LastSent[i]).type = <<"R", "A", "W">>
       /\ Deref(LastSent[j]).type = <<"n", "e", "c">>

\* The ids a /received request may carry, bounds and neighbours included.
AllIds == (0 - 1)..(MAX_CODES + 1)

\* C2: after setup and before any record is inserted, every slot of both
\* buffers is unused, both listings of the home page are empty, and
\* handleReceived answers 404 for every id.
C2_FreshBuffers ==
  (sentLog = <<>> /\ recvLog = <<>>) =>
    /\ \A i \in Slots :
         /\ Deref(LastSent[i]).rec_time = <<>>
         /\ Deref(LastReceived[i]).rec_time = <<>>
    /\ listSent = <<>>
    /\ listReceived = <<>>
    /\ \A id \in AllIds : \A g \in Garbage : ~handleReceivedFound(id, g)
    /\ (pc = "responded" /\ ret = "handleReceived") => httpcode = 404

C2_Witness ==
  /\ sentLog = <<>>
  /\ recvLog = <<>>
  /\ pc = "responded"
  /\ ret = "handleReceived"
  /\ call.id = 1
  /\ httpcode = 404

\* C3: handleReceived(id) shows the id-th newest received record when
\* 1 <= id <= MAX_CODES and at least id records were inserted, answers 404
\* otherwise, and its test reads no memory outside the buffer.
C3_Lookup ==
  /\ (pc = "responded" /\ ret = "handleReceived") =>
       IF call.id \in 1..MAX_CODES /\ call.id <= Len(recvLog)
       THEN httpcode = 200 /\ page = recvLog[call.id]
       ELSE httpcode = 404 /\ page = EmptyCode
  /\ \A id \in AllIds : \A g1, g2 \in Garbage :
       handleReceivedFound(id, g1) = handleReceivedFound(id, g2)

C3_Witness ==
  /\ pc = "responded"
  /\ ret = "handleReceived"
  /\ call.id = MAX_CODES
  /\ httpcode = 200
  /\ Len(recvLog) > MAX_CODES
  /\ page = recvLog[MAX_CODES]

\* C4: a reception that is flagged as a protocol repeat leaves the received
\* history and its listing as they were and is not forwarded to fhem.
C4_RepeatDropped ==
  [][(Len(evLog') = Len(evLog) + 1 /\ evLog'[Len(evLog')].results.repeat)
       => /\ Received' = Received
          /\ LastReceived' = LastReceived
          /\ recvLog' = recvLog
          /\ listReceived' = listReceived
          /\ fhemCalls' = fhemCalls
          /\ CountIRtransferred' = CountIRtransferred]_vars

C4_Witness ==
  /\ evLog # <<>>
  /\ evLog[Len(evLog)].results.repeat
  /\ evLog[Len(evLog)].results.decode_type = "NEC"
  /\ evLog[Len(evLog)].FhemMsg = 1
  /\ Len(recvLog) = 1
  /\ fhemCalls = 1

\* The receptions that are no repeats, and those of them that are to be
\* forwarded: FhemMsg was not 0 at the reception and the label is known.
NonRepeats(log) == SelectSeq(log, LAMBDA e : ~e.results.repeat)
ToForward(log) ==
  SelectSeq(log, LAMBDA e : /\ ~e.results.repeat
                            /\ e.FhemMsg # 0
                            /\ encoding(e.results.decode_type) # UNKNOWN)
Smaller(a, b) == IF a < b THEN a ELSE b

\* C5: for every reception that is no repeat, IRtoFhem is called exactly once
\* if FhemMsg is not 0 at that moment (a value just set by /setup included)
\* and the label is not UNKNOWN, and not at all otherwise; the record is
\* inserted into the received history in both cases.
C5_Forwarding ==
  /\ fhemCalls = Len(ToForward(evLog))
  /\ CountIRtransferred = Len(ToForward(evLog))
  /\ Len(recvLog) = Len(NonRepeats(evLog))
  /\ Len(listReceived) = Smaller(Len(NonRepeats(evLog)), MAX_CODES)

C5_Witness ==
  /\ Len(evLog) = 2
  /\ evLog[1].FhemMsg = 0 /\ evLog[1].results = NecDecode
  /\ evLog[2].FhemMsg = 2 /\ evLog[2].results = NecDecode
  /\ fhemCalls = 1
  /\ Len(listReceived) = 2

\* C6: the loop processes no reception (no count, no insert, no forward)
\* while a transmit is in progress, and a transmit in progress has
\* holdReceive set.
C6_HoldDuringTransmit ==
  /\ [](pc \in {"irblast", "rawblast"} => holdReceive)
  /\ [][(\/ CountIRreceived' # CountIRreceived
         \/ recvLog' # recvLog
         \/ fhemCalls' # fhemCalls
         \/ evLog' # evLog)
          => (~holdReceive /\ pc = "idle")]_vars

C6_Witness ==
  /\ pc = "rawblast"
  /\ holdReceive
  /\ CountIRreceived = 1
  /\ Len(recvLog) = 1

\* C7: every transmit, whatever its arguments, runs to completion; whenever
\* holdReceive is set it is cleared again, with exactly one resume of the
\* receiver by resetReceive; holdReceive is clear whenever the loop polls.
C7_TransmitCompletes ==
  /\ (pc \in {"irblast", "rawblast"}) ~> (pc = "idle")
  /\ holdReceive ~> ~holdReceive
  /\ [](pc = "idle" => ~holdReceive)
  /\ [][(holdReceive /\ ~holdReceive') => resumes' = resumes + 1]_vars
  /\ [][(pc \in {"irblast", "rawblast"}) => ~holdReceive']_vars

C7_Witness ==
  /\ pc = "responded"
  /\ ~holdReceive
  /\ call.fn = "rawblast"
  /\ call.raw = <<>>
  /\ resumes = 2
  /\ CountIRsent = 2
  /\ Deref(LastSent[1]).type = <<"b", "o", "g", "u", "s">>

\* A hexadecimal string as a number, digit by digit from the left.
HexDigitValue(c) ==
  (CHOOSE k \in 1..16 :
     c \in {(Digits \o SubSeq(UpperAlpha, 1, 6))[k],
            (Digits \o SubSeq(LowerAlpha, 1, 6))[k]}) - 1
ShiftLeft4(x) ==
  [i \in 1..Len(x) |->
     ((x[i] % 4096) * 16) + (IF i > 1 THEN x[i - 1] \div 4096 ELSE 0)]
RECURSIVE HexValueOf(_)
HexValueOf(h) ==
  IF h = <<>> THEN UInt64(0)
  ELSE AddAt(ShiftLeft4(HexValueOf(SubSeq(h, 1, Len(h) - 1))), 1,
             HexDigitValue(h[Len(h)]))

\* The transmitter operation of each protocol name.
ProtocolOp(name) ==
  CASE name = <<"n", "e", "c">> -> "sendNEC"
    [] name = <<"s", "o", "n", "y">> -> "sendSony"
    [] name = <<"c", "o", "o", "l", "i", "x">> -> "sendCOOLIX"
    [] name = <<"w", "h", "y", "n", "t", "e", "r">> -> "sendWhynter"
    [] name = <<"p", "a", "n", "a", "s", "o", "n", "i", "c">> -> "sendPanasonic"
    [] name = <<"j", "v", "c">> -> "sendJVC"
    [] name = <<"s", "a", "m", "s", "u", "n", "g">> -> "sendSAMSUNG"
    [] name = <<"s", "h", "a", "r", "p", "r", "a", "w">> -> "sendSharpRaw"
    [] name = <<"d", "i", "s", "h">> -> "sendDISH"
    [] name = <<"r", "c", "5">> -> "sendRC5"
    [] name = <<"r", "c", "6">> -> "sendRC6"
    [] name = <<"d", "e", "n", "o", "n">> -> "sendDenon"
    [] name = <<"l", "g">> -> "sendLG"
    [] name = <<"s", "h", "a", "r", "p">> -> "sendSharpRaw"
    [] name = <<"r", "c", "m", "m">> -> "sendRCMM"
    [] OTHER -> "none"

\* The calls of transmitter operations in a log (the delays left out).
Sends(log) == SelectSeq(log, LAMBDA e : e.op # "delay")

\* The name resolves: the engine finds a transmitter operation for it.
Resolves(type) == SendCode(type, ULong(0), 0, 0) # <<>>

\* A named transmit with a name that resolves and R, P >= 1 has returned.
NamedSent ==
  /\ pc = "return"
  /\ call.fn = "irblast"
  /\ Resolves(call.type)
  /\ call.repeat >= 1
  /\ call.pulse >= 1

\* C8 as stated: the protocol's operation is invoked R * P times, each time
\* with the parsed payload and the given bit length, and no other operation.
C8_AsStated ==
  NamedSent =>
    /\ Len(Sends(txLog)) = call.repeat * call.pulse
    /\ \A i \in 1..Len(Sends(txLog)) :
         LET e == Sends(txLog)[i]
         IN /\ e.op = ProtocolOp(call.type)
            /\ e.args.data = call.data
            /\ "nbits" \in DOMAIN e.args
            /\ e.args.nbits = call.len

\* C8: the protocol's operation is invoked R * P times and no other
\* operation, each time with the parsed payload (the value of the hex string
\* when it has at most 8 digits) and with the given bit length, except that
\* panasonic is invoked with the address and the payload and no bit length.
C8_NamedTransmit ==
  NamedSent =>
    /\ Len(Sends(txLog)) = call.repeat * call.pulse
    /\ \A i \in 1..Len(Sends(txLog)) :
         LET e == Sends(txLog)[i]
         IN /\ e.op = ProtocolOp(call.type)
            /\ e.args.data = call.data
            /\ Len(call.dataStr) <= 8 =>
                 e.args.data \o <<0, 0>> = HexValueOf(call.dataStr)
            /\ IF call.type = <<"p", "a", "n", "a", "s", "o", "n", "i", "c">>
               THEN /\ "nbits" \notin DOMAIN e.args
                    /\ e.args.address = call.address
               ELSE /\ "nbits" \in DOMAIN e.args
                    /\ e.args.nbits = call.len

C8_Witness ==
  /\ NamedSent
  /\ call.type = <<"p", "a", "n", "a", "s", "o", "n", "i", "c">>
  /\ call.dataStr = <<"2", "0", "D", "F", "1", "0", "E", "F">>
  /\ call.repeat = 2
  /\ call.pulse = 3
  /\ Len(Sends(txLog)) = 6

\* The name is one of the supported names, in some spelling.
Supported(asked) ==
  \E name \in SupportedNames : toUpperCase(asked) = toUpperCase(name)

\* C9: a transmit of any of the fifteen supported names, in any letter case,
\* resolves to a transmitter operation and emits a code.
C9_AllNamesEmit ==
  (pc = "return" /\ call.fn = "irblast" /\ Supported(call.asked)
     /\ call.repeat >= 1 /\ call.pulse >= 1)
    => /\ Sends(txLog) # <<>>
       /\ \A i \in 1..Len(Sends(txLog)) :
            Sends(txLog)[i].op = ProtocolOp(toLowerCase(call.asked))

\* A transmit of a name outside the supported set.
Unsupported == call.fn = "irblast" /\ ~Supported(call.asked)

\* C10: a transmit of an unsupported name invokes no transmitter operation
\* and fails in no way, and still inserts a sent record with the lower-cased
\* name, counts one transmit, and sets and clears holdReceive.
C10_UnsupportedName ==
  /\ []((Unsupported /\ pc = "irblast") => holdReceive)
  /\ []((Unsupported /\ pc \in {"return", "responded"}) =>
          /\ Sends(txLog) = <<>>
          /\ ~holdReceive
          /\ sentLog # <<>>
          /\ Deref(LastSent[0]).type = sentLog[1].type
          /\ toUpperCase(Deref(LastSent[0]).type) = toUpperCase(call.asked)
          /\ \A i \in 1..Len(call.asked) :
               ~IsIn(UpperAlpha, Deref(LastSent[0]).type[i])
          /\ Deref(LastSent[0]).data = call.dataStr
          /\ pc = "responded" => httpcode = 200)
  /\ [][(Unsupported /\ pc = "irblast") =>
          /\ CountIRsent' = CountIRsent + 1
          /\ Len(sentLog') = Len(sentLog) + 1
          /\ pc' = "return"]_vars
  /\ [][(Unsupported /\ pc \in {"return", "responded"}) =>
          CountIRsent' = CountIRsent]_vars

C10_Witness ==
  /\ Unsupported
  /\ pc = "responded"
  /\ httpcode = 200
  /\ call.asked = <<"B", "o", "g", "u", "s">>
  /\ Deref(LastSent[0]).type = <<"b", "o", "g", "u", "s">>
  /\ CountIRsent = 2
  /\ Sends(txLog) = <<>>

\* C11: whichever handler a transmit request arrives through, the engine
\* runs with pulse, repeat, pdelay and rdelay all positive: a supplied value
\* <= 0 has been replaced by its default (1, 1, 100, 1000).
C11_Normalised ==
  pc \in {"irblast", "rawblast"} =>
    /\ call.pulse >= 1
    /\ call.repeat >= 1
    /\ call.pdelay >= 1
    /\ call.rdelay >= 1

\* The delays in a log of transmitter operations.
Delays(log) == SelectSeq(log, LAMBDA e : e.op = "delay")

\* A transmit with R, P >= 1 has returned and the log holds what it did.
TransmitLogged ==
  /\ pc = "return"
  /\ ret = "handle_msg" \/ call.fn = "rawblast"
  /\ call.repeat >= 1
  /\ call.pulse >= 1

\* C12: within a transmit the delay pdelay follows every pulse but the last
\* of a repeat and the delay rdelay follows every repeat but the last, so
\* there are R * (P - 1) + (R - 1) delays, none for repeat = 1 and pulse = 1.
C12_DelaysBetween ==
  TransmitLogged =>
    /\ Len(Delays(txLog)) = call.repeat * (call.pulse - 1) + (call.repeat - 1)
    /\ (call.repeat = 1 /\ call.pulse = 1) => Delays(txLog) = <<>>

\* The marks and spaces in a log of transmitter operations.
Waves(log) == SelectSeq(log, LAMBDA e : e.op \in {"mark", "space"})

\* A list of durations as marks and spaces: the 1st, 3rd, ... a mark, the
\* 2nd, 4th, ... a space of at least 0.
Replay(list) ==
  [k \in 1..Len(list) |->
     IF k % 2 = 1
     THEN [op |-> "mark", args |-> [usec |-> list[k]]]
     ELSE [op |-> "space",
           args |-> [usec |-> IF list[k] < 0 THEN 0 ELSE list[k]]]]
ClosingSpace == [op |-> "space", args |-> [usec |-> 0]]
RECURSIVE Times(_, _)
Times(seq, n) == IF n <= 0 THEN <<>> ELSE seq \o Times(seq, n - 1)

\* A raw transmit has returned.
RawSent == pc = "return" /\ call.fn = "rawblast"

\* C13: a raw transmit of a list with repeat R and pulse P replays the list
\* in order R * P times (each replay closed by a space of 0), element i as a
\* mark when i is even and as a space of max(0, L[i]) when i is odd, and no
\* space has a negative duration.
C13_RawReplay ==
  RawSent =>
    /\ Waves(txLog) =
         Times(Replay(call.raw) \o <<ClosingSpace>>, call.repeat * call.pulse)
    /\ \A k \in 1..Len(txLog) :
         txLog[k].op = "space" => txLog[k].args.usec >= 0

C13_Witness ==
  /\ RawSent
  /\ call.raw = <<9, 0 - 4, 5, 6>>
  /\ call.repeat = 2
  /\ call.pulse = 3
  /\ Len(Waves(txLog)) = 30

\* C14 as stated: a raw transmit with repeat 1 and pulse 1 of n durations
\* emits exactly those n marks and spaces and no other mark or space.
C14_AsStated ==
  (RawSent /\ call.repeat = 1 /\ call.pulse = 1) =>
    Waves(txLog) = Replay(call.raw)

\* C14: a raw transmit with repeat 1 and pulse 1 of n durations emits those
\* n marks and spaces (a negative space as 0), then one closing space of 0,
\* and no other mark or space.
C14_RawOnce ==
  (RawSent /\ call.repeat = 1 /\ call.pulse = 1) =>
    /\ Len(Waves(txLog)) = Len(call.raw) + 1
    /\ SubSeq(Waves(txLog), 1, Len(call.raw)) = Replay(call.raw)
    /\ Waves(txLog)[Len(call.raw) + 1] = ClosingSpace

C14_Witness ==
  /\ RawSent
  /\ call.repeat = 1
  /\ call.pulse = 1
  /\ call.raw = <<9, 0 - 4, 5, 6>>
  /\ Len(Waves(txLog)) = 5

\* The records at the logical positions of the two histories.
SentAt(i) == Deref(LastSent[i])
ReceivedAt(i) == Deref(LastReceived[i])
NoUpperCase(str) == \A k \in 1..Len(str) : ~IsIn(UpperAlpha, str[k])

\* C15: after any interleaving of named and raw transmits the head of the
\* sent history has the shape of the transmit that just returned, whatever
\* the reused slot held: a named transmit gives the lower-cased name, the
\* hex string, the length, the address and no raw samples; a raw transmit
\* gives "RAW", the number of samples and no payload.
C15_SentHeadShape ==
  (pc = "return" /\ call.fn \in {"irblast", "rawblast"}) =>
    IF call.fn = "irblast"
    THEN /\ toUpperCase(SentAt(0).type) = toUpperCase(call.asked)
         /\ NoUpperCase(SentAt(0).type)
         /\ SentAt(0).data = call.dataStr
         /\ SentAt(0).bits = DecStr(call.len)
         /\ SentAt(0).address = DecStr(call.address)
         /\ SentAt(0).rawbuf = <<>>
    ELSE /\ SentAt(0).type = <<"R", "A", "W">>
         /\ SentAt(0).bits = DecStr(Len(call.raw))
         /\ SentAt(0).data = <<>>
         /\ SentAt(0).rawbuf = <<>>

C15_Witness ==
  /\ pc = "return"
  /\ call.fn = "rawblast"
  /\ Len(sentLog) > MAX_CODES
  /\ sentLog[MAX_CODES + 1].type = <<"n", "e", "c">>
  /\ sentLog[2].type = <<"n", "e", "c">>
  /\ SentAt(0).data = <<>>

C17_RoundTrip ==
  (pc = "irblast" /\ evLog # <<>>) =>
    /\ HexValueOf(call.dataStr) = evLog[1].results.value
    /\ call.data \o <<0, 0>> = evLog[1].results.value

\* C18: a record in a history keeps its timestamp and every other field at
\* each logical position it takes: a step leaves every position of a history
\* as it is, or moves every record one position on (the last one out) as it
\* is, through all transmits and receptions.
C18_RecordsFrozen ==
  [][/\ \/ \A i \in Slots : SentAt(i)' = SentAt(i)
        \/ /\ Len(sentLog') = Len(sentLog) + 1
           /\ \A i \in 0..(MAX_CODES - 2) : SentAt(i + 1)' = SentAt(i)
     /\ \/ \A i \in Slots : ReceivedAt(i)' = ReceivedAt(i)
        \/ /\ Len(recvLog') = Len(recvLog) + 1
           /\ \A i \in 0..(MAX_CODES - 2) : ReceivedAt(i + 1)' = ReceivedAt(i)
    ]_vars

C18_Witness ==
  /\ Len(sentLog) = MAX_CODES
  /\ Len(recvLog) = 1
  /\ SentAt(MAX_CODES - 1).rec_time = getFormattedTime(BootTime)
  /\ SentAt(MAX_CODES - 1) = sentLog[MAX_CODES]
  /\ ReceivedAt(0).rec_time # <<>>

\* C19: a decoded record with the label UNKNOWN, protocol ids without a label
\* of their own included, has the placeholder "0x" as address and as
\* command; a record with another label has "0x" and hex digits.
C19_UnknownPlaceholders ==
  \A i \in Slots :
    ReceivedAt(i).rec_time # <<>> =>
      IF ReceivedAt(i).type = UNKNOWN
      THEN /\ ReceivedAt(i).address = <<"0", "x">>
           /\ ReceivedAt(i).command = <<"0", "x">>
      ELSE /\ Len(ReceivedAt(i).address) > 2
           /\ Len(ReceivedAt(i).command) > 2
           /\ SubSeq(ReceivedAt(i).address, 1, 2) = <<"0", "x">>
           /\ SubSeq(ReceivedAt(i).command, 1, 2) = <<"0", "x">>

\* The parameters of /setup as documented, and the value each one stands for.
DocumentedNames ==
  {"FhemIP", "FhemPort", "FhemMsg", "FhemFmt", "FhemVarIR", "FhemVarTH",
   "DHTcycle"}
ConfigValue(name) == IF name = "FhemMsg" THEN FhemMsg ELSE config[name]

\* C20: after a /setup request every configuration value whose documented
\* parameter is in the request has the supplied value.
C20_SetupApplies ==
  (pc = "responded" /\ ret = "handle_setup") =>
    \A name \in DocumentedNames \cap DOMAIN call.args :
      ConfigValue(name) = call.args[name]

\* C21 as stated: a readout with a failed reading less than ForceSendAfter
\* after the last message sends no message.
C21_AsStated ==
  (sensor.reads > 0 /\ sensor.read.error /\ sensor.read.since < ForceSendAfter)
    => ~sensor.read.sent

\* C21: a readout with a failed reading sends a message at once, however
\* long ago the last one was, with "-" for each failed reading and the
\* formatted value for the other, and leaves the cached temperature and
\* humidity as they were.
C21_FailedRead ==
  (sensor.reads > 0 /\ sensor.read.error) =>
    /\ sensor.read.sent
    /\ sensor.lastSent = sensor.DHTlastReadout
    /\ sensor.read.sTemp =
         IF sensor.read.temp.nan THEN <<"-">>
         ELSE dtostrf52(sensor.read.temp.tenths)
    /\ sensor.read.sHum =
         IF sensor.read.hum.nan THEN <<"-">>
         ELSE dtostrf52(sensor.read.hum.tenths)
    /\ sensor.lastTemp = sensor.read.cachedTemp
    /\ sensor.lastHum = sensor.read.cachedHum

C21_Witness ==
  /\ sensor.reads = 3
  /\ sensor.read.error
  /\ sensor.read.temp.nan
  /\ ~sensor.read.hum.nan
  /\ sensor.read.since > ForceSendAfter
  /\ sensor.read.sTemp = <<"-">>
  /\ sensor.read.sHum = <<"4", "0", ".", "0", "0">>
  /\ sensor.lastTemp = 215
  /\ sensor.lastHum = 400
  /\ sensor.dhtCalls = 2

\* The counts of C22.
AtLeast0(x) == IF x < 0 THEN 0 ELSE x
PulseDelays(R, P, pdelay) == R * Smaller(P, AtLeast0(pdelay - 1))
RepeatDelays(R, rdelay) == Smaller(R, AtLeast0(rdelay - 1))
DelaysOf(log, ms) == SelectSeq(log, LAMBDA e : e.op = "delay" /\ e.args.ms = ms)

Commas(text) == Cardinality({k \in 1..Len(text) : text[k] = ","})
EntryCount(text) == IF text = <<>> THEN 0 ELSE Commas(text) + 1
RECURSIVE JoinDec(_)
JoinDec(numbers) ==
  IF numbers = <<>> THEN <<>>
  ELSE IF Len(numbers) = 1 THEN DecStr(numbers[1])
  ELSE DecStr(numbers[1]) \o <<",">> \o JoinDec(Tail(numbers))

\* C23: for a capture of any length, 0 and 1 included, the sample count of
\* the decoded record is the number of entries of its raw samples, and the
\* raw samples are the entries 1..rawlen-1 of the capture in order, each
\* times RAWTICK, entry 0 left out.
C23_RawSamples ==
  evLog # <<>> =>
    LET capture == evLog[Len(evLog)].results.rawbuf
        samples == [k \in 1..(Len(capture) - 1) |-> capture[k + 1] * RAWTICK]
    IN /\ ReceivedAt(0).rawbuf = JoinDec(samples)
       /\ ReceivedAt(0).rawlen = DecStr(EntryCount(ReceivedAt(0).rawbuf))

\* C25: a /json request whose body does not parse as a JSON array is answered
\* with status 400 in the same step; no transmit operation is made for it,
\* and the sent and received histories, the three counters and holdReceive
\* are what they were before the request.
JsonRequest(c) == c.fn = "handle_json"
Unparsed(c) == JsonRequest(c) /\ ~c.args.plain.success
C25_Refused ==
  (pc = "idle" /\ Unparsed(call')) =>
    /\ httpcode' = 400
    /\ pc' = "responded"
    /\ txLog' = <<>>
    /\ UNCHANGED <<history, counters, holdReceive, sentLog, recvLog>>
C25_Answered ==
  Unparsed(call) => pc = "responded" /\ httpcode = 400 /\ txLog = <<>>
C25_ParseFailure == [][C25_Refused]_vars /\ []C25_Answered
\* A body that does not parse has been answered, with codes in both
\* histories.
C25_Witness ==
  /\ Unparsed(call)
  /\ pc = "responded"
  /\ CountIRsent > 0
  /\ CountIRreceived > 0

\* C24: handle_json takes the elements of a parsed array one at a time from
\* the front. A "delay" element waits for its rdelay (1000 when absent or
\* <= 0) and inserts no sent record, leaves CountIRsent and the sent buffer
\* alone and does not touch holdReceive. Every other element calls rawblast
\* (type "raw") or irblast (any other type) with the element's values, and
\* that call makes exactly one insert at the head of the sent history, of the
\* element's type, and adds one to CountIRsent.
DelayType == <<"d", "e", "l", "a", "y">>
Positive(elem, name, default) ==
  IF name \in DOMAIN elem /\ elem[name] > 0 THEN elem[name] ELSE default
InJsonLoop == ret = "handle_json" /\ pc \in {"json", "return"} /\ queue # <<>>
InJsonTransmit == ret = "handle_json" /\ pc \in {"irblast", "rawblast"}
C24_Element ==
  InJsonLoop =>
    LET elem == Head(queue)
    IN /\ queue' = Tail(queue)
       /\ sentLog' = sentLog
       /\ CountIRsent' = CountIRsent
       /\ Sent' = Sent
       /\ LastSent' = LastSent
       /\ IF elem.type = DelayType
          THEN /\ holdReceive' = holdReceive
               /\ pc' = "json"
               /\ txLog' = Append(txLog,
                                  TxOp("delay",
                                       [ms |-> Positive(elem, "rdelay", 1000)]))
          ELSE /\ txLog' = txLog
               /\ call'.repeat = Positive(elem, "repeat", 1)
               /\ call'.pulse = Positive(elem, "pulse", 1)
               /\ call'.rdelay = Positive(elem, "rdelay", 1000)
               /\ call'.pdelay = Positive(elem, "pdelay", 100)
               /\ IF elem.type = <<"r", "a", "w">>
                  THEN /\ pc' = "rawblast"
                       /\ call'.fn = "rawblast"
                       /\ call'.raw = elem.data
                  ELSE /\ pc' = "irblast"
                       /\ call'.fn = "irblast"
                       /\ call'.asked = elem.type
                       /\ call'.dataStr = elem.data
C24_Transmit ==
  InJsonTransmit =>
    /\ pc' = "return"
    /\ queue' = queue
    /\ CountIRsent' = CountIRsent + 1
    /\ Len(sentLog') = Len(sentLog) + 1
    /\ SubSeq(sentLog', 2, Len(sentLog')) = sentLog
    /\ \A i \in 1..(MAX_CODES - 1) : SentAt(i)' = SentAt(i - 1)
    /\ SentAt(0)'.type =
         (IF call.fn = "rawblast" THEN <<"R", "A", "W">> ELSE call.type)
C24_ArrayInOrder == [][C24_Element /\ C24_Transmit]_vars
\* The array [nec, delay 5, raw] has been worked through: the raw code is the
\* sent head, the nec code behind it, and the delay lies between their
\* transmissions.
C24_Witness ==
  /\ pc = "responded"
  /\ ret = "handle_json"
  /\ httpcode = 200
  /\ CountIRsent = 2
  /\ SentAt(0).type = <<"R", "A", "W">>
  /\ SentAt(1).type = <<"n", "e", "c">>
  /\ \E i \in 2..(Len(txLog) - 1) : txLog[i] = TxOp("delay", [ms |-> 5])

\* C26: every pass of loop() that consumes a decode, a repeat or not,
\* forwarded or not, whether fhem answers or not, calls irrecv.resume()
\* exactly once, and calls it before the call of IRtoFhem if there is one.
Consumed == Len(evLog') = Len(evLog) + 1
CallsOf(event, fn) == {i \in DOMAIN event.calls : event.calls[i].fn = fn}
C26_Pass ==
  Consumed =>
    LET event == evLog'[Len(evLog')]
    IN /\ resumes' = resumes + 1
       /\ Cardinality(CallsOf(event, "irrecv.resume")) = 1
       /\ \A i \in CallsOf(event, "irrecv.resume"),
             j \in CallsOf(event, "IRtoFhem") : i < j
       /\ holdReceive' = FALSE
C26_ResumedOnce == [][C26_Pass]_vars
\* The loop has consumed a repeat, a code whose forwarding got no answer
\* and a code that was forwarded and answered.
C26_Witness ==
  /\ Len(evLog) = 3
  /\ resumes = 3
  /\ \E i \in 1..3 : evLog[i].results.repeat
  /\ \E i \in 1..3 : \E j \in CallsOf(evLog[i], "IRtoFhem") :
       evLog[i].calls[j].httpCode < 0
  /\ \E i \in 1..3 : \E j \in CallsOf(evLog[i], "IRtoFhem") :
       evLog[i].calls[j].httpCode > 0

\* C30: IRtoFhem is only ever called for a code whose type is not UNKNOWN:
\* no request that fhem is sent, in the flat or in the structured format, is
\* of type RAW or has a rawlen or a rawbuf field, and every forwarding that
\* is counted is such a call.
ForwardedCalls(event) ==
  {event.calls[j] : j \in CallsOf(event, "IRtoFhem")}
RawForm(request) ==
  \/ request.fields[1].value = <<"R", "A", "W">>
  \/ \E k \in DOMAIN request.fields :
       request.fields[k].name \in {"rawlen", "rawbuf"}
RECURSIVE CountForwarded(_)
CountForwarded(log) ==
  IF log = <<>> THEN 0
  ELSE Cardinality(CallsOf(Head(log), "IRtoFhem")) + CountForwarded(Tail(log))
C30_NoRawForwarding ==
  /\ \A i \in DOMAIN evLog :
       \A request \in ForwardedCalls(evLog[i]) :
         /\ codeIRcode(evLog[i].results).type # UNKNOWN
         /\ ~RawForm(request)
         /\ request.fields[1] =
              FhemField("type", codeIRcode(evLog[i].results).type)
  /\ fhemCalls = CountForwarded(evLog)
  /\ CountIRtransferred = CountForwarded(evLog)
\* A NEC code has been forwarded in the flat format and one in the
\* structured format, and then a code of no known protocol was received
\* with messaging on and was not forwarded.
C30_Witness ==
  /\ Len(evLog) = 3
  /\ \E request \in ForwardedCalls(evLog[1]) : request.format = "fhem"
  /\ \E request \in ForwardedCalls(evLog[2]) : request.format = "json"
  /\ evLog[3].results = UnknownDecode
  /\ evLog[3].FhemMsg # 0
  /\ ForwardedCalls(evLog[3]) = {}

\* C27: LastSent holds each slot of Sent exactly once and nothing else, and
\* LastReceived each slot of Received exactly once and nothing else; a step
\* either leaves a pointer array as it is or leaves it shifted as a whole, so
\* that a handler reading a history finds no array partly shifted.
PermutationOf(last, arr) ==
  /\ \A i \in Slots : last[i].arr = arr /\ last[i].idx \in Slots
  /\ \A i, j \in Slots : i # j => last[i] # last[j]
  /\ {last[i] : i \in Slots} = {PtrTo(arr, k) : k \in Slots}
WholeShift(last, after) ==
  \/ after = last
  \/ /\ after[0] = last[MAX_CODES - 1]
     /\ \A i \in 1..(MAX_CODES - 1) : after[i] = last[i - 1]
C27_Pointers ==
  /\ PermutationOf(LastSent, "Sent")
  /\ PermutationOf(LastReceived, "Received")
C27_Shifts ==
  /\ WholeShift(LastSent, LastSent')
  /\ WholeShift(LastReceived, LastReceived')
C27_Permutations == []C27_Pointers /\ [][C27_Shifts]_vars
\* /received is answered from buffers that have been shifted three and
\* four times.
C27_Witness ==
  /\ pc = "responded"
  /\ ret = "handleReceived"
  /\ LastSent[0] = PtrTo("Sent", 3)
  /\ LastReceived[0] = PtrTo("Received", 2)
  /\ LastReceived[MAX_CODES - 1] = PtrTo("Received", 1)

\* C28: CountIRsent is the number of calls of irblast and rawblast that have
\* returned, which is the number of records put into the sent history,
\* whatever repeat and pulse were and whether or not the type was one that
\* irblast knows; CountIRtransferred is the number of calls of IRtoFhem;
\* CountIRreceived counts every decode consumed, repeats too, so that
\* CountIRtransferred <= records put into the received history
\* <= CountIRreceived.
C28_Counters ==
  /\ CountIRsent = Len(sentLog)
  /\ Len(listSent) = Smaller(CountIRsent, MAX_CODES)
  /\ CountIRtransferred = fhemCalls
  /\ CountIRtransferred = CountForwarded(evLog)
  /\ CountIRtransferred <= Len(recvLog)
  /\ Len(recvLog) <= CountIRreceived
  /\ CountIRreceived = Len(evLog)
  /\ Len(listReceived) = Smaller(Len(recvLog), MAX_CODES)
\* A name irblast does not know has been sent with repeat 2, and a protocol
\* repeat has been received.
C28_Witness ==
  /\ CountIRsent = 1
  /\ sentLog[1].type = <<"b", "o", "g", "u", "s">>
  /\ CountIRreceived = 1
  /\ recvLog = <<>>
  /\ pc = "responded"
  /\ call.repeat = 2

\* C29: a transmit, from the entry of irblast or rawblast to its return,
\* leaves every position of the received history, CountIRreceived and
\* CountIRtransferred as they were; a reception leaves every position of the
\* sent history and CountIRsent as they were.
TransmitStep ==
  pc \in {"irblast", "rawblast"} \/ pc' \in {"irblast", "rawblast"}
C29_TransmitFrame ==
  TransmitStep =>
    /\ \A i \in Slots : ReceivedAt(i)' = ReceivedAt(i)
    /\ UNCHANGED <<Received, LastReceived, recvLog, CountIRreceived,
                   CountIRtransferred, fhemCalls>>
C29_ReceiveFrame ==
  Consumed =>
    /\ \A i \in Slots : SentAt(i)' = SentAt(i)
    /\ UNCHANGED <<Sent, LastSent, sentLog, CountIRsent>>
C29_Frames == [][C29_TransmitFrame /\ C29_ReceiveFrame]_vars
\* A code was sent, then one was received and forwarded, then one was sent.
C29_Witness ==
  /\ pc = "return"
  /\ Len(sentLog) = 2
  /\ Len(recvLog) = 1
  /\ CountIRtransferred = 1
  /\ sentLog[2].rec_time = getFormattedTime(BootTime)
  /\ recvLog[1].rec_time = getFormattedTime(BootTime + 1)
  /\ sentLog[1].rec_time = getFormattedTime(BootTime + 2)

====
